---- MODULE Spec2Model ----
(***************************************************************************)
(* A model of the gti package: the facade of atom.py and the three         *)
(* adapters it dispatches to (TDAClient, RobinhoodStocks, YFinanceApi).    *)
(*                                                                         *)
(* One action is one call of a facade function or of an adapter method.    *)
(* The caller is sequential: it is "ready", makes one call, and is "done"  *)
(* holding the outcome until it goes on to the next call.  The answers of  *)
(* the vendor libraries (tda-api, robin_stocks, yfinance) and the wall     *)
(* clock are inputs of a call.                                             *)
(*                                                                         *)
(* Three specifications share the variables: Spec is the caller of the     *)
(* imported module, SessionSpec is the construction of TDAClient over the  *)
(* life of the token files, and StreamSpec is TdaStream.read_stream.       *)
(*                                                                         *)
(* Representations:                                                        *)
(*   - a ticker is a sequence of one-character strings, so that            *)
(*     str.upper() is computed character by character;                     *)
(*   - a Python dict is a function over its key set, iterated in the       *)
(*     order the vendor emits the keys;                                    *)
(*   - a pandas DataFrame is a sequence of rows, each row a record that    *)
(*     carries its index label idx; a DataFrame built from an empty list   *)
(*     has no columns, and selecting a column of it raises KeyError;       *)
(*   - a local datetime is a number of minutes of US/Pacific wall clock    *)
(*     time since Monday 2024-03-04 00:00 (UTC offsets are not modelled:   *)
(*     the code's datetime arithmetic never changes tzinfo);               *)
(*   - strike prices are in tenths of a dollar.                            *)
(***************************************************************************)
EXTENDS Integers, Sequences, FiniteSets, TLC

VARIABLES
    pc,                 \* the caller: "ready" or "done"
    op,                 \* the function called last
    source,             \* its source argument (facade) or the adapter called
    ticker,             \* its ticker argument, as the caller wrote it
    sent,               \* the calls recorded at the vendor libraries
    ret,                \* how the call ended
    call_or_put,        \* get_option_chain: the call_or_put argument
    in_or_out,          \* get_option_chain: the in_or_out argument
    option_data,        \* get_options_data: response.json()
    options_list,       \* get_options_data: the flattened contracts
    result,             \* get_options_data: the rows returned
    lookback_days,      \* get_minute_bars: the lookback_days argument
    from_market_open,   \* get_minute_bars: the from_market_open argument
    frequency_window,   \* get_minute_bars: the frequency_window argument
    clock,              \* get_minute_bars: the first clock reading
    end_date,           \* get_minute_bars: end_datetime of the request
    now,                \* get_minute_bars: the second clock reading
    start_date,         \* get_minute_bars: start_datetime of the request
    bars,               \* the Date index of the bars returned
    num_bars,           \* get_minute_bars: the num_bars argument
    candles,            \* price history: the candles of the response
    status_code,        \* price history: the status of the response
    session,            \* TDAClient.client: "none", "valid" or "expired"
    files,              \* the token file at each path
    tda_token_path,     \* broker_config.tda_token_path
    logins,             \* the interactive logins completed so far
    auth,               \* how the construction of TDAClient ended
    stream_pc,          \* TdaStream.read_stream: the statement it is at
    messages,           \* what the stream client delivers before it raises
    reads,              \* the messages read from the stream client so far
    handler,            \* whether order_book_handler is registered
    delivered           \* the messages order_book_handler was called with

vars == <<pc, op, source, ticker, sent, ret, call_or_put, in_or_out,
          option_data, options_list, result, lookback_days,
          from_market_open, frequency_window, clock, end_date, now,
          start_date, bars, num_bars, candles, status_code, session, files,
          tda_token_path, logins, auth, stream_pc, messages, reads, handler,
          delivered>>

optionVars == <<call_or_put, in_or_out, option_data, options_list, result>>
windowVars == <<lookback_days, from_market_open, frequency_window,
                clock, end_date, now, start_date>>
historyVars == <<bars, num_bars, candles, status_code>>
callVars == <<pc, op, source, ticker, sent, ret, optionVars, windowVars,
              historyVars>>
sessionVars == <<session, files, tda_token_path, logins, auth>>
streamVars == <<stream_pc, messages, reads, handler, delivered>>

-----------------------------------------------------------------------------
(* Python values *)

None == "None"

Value(v) == [kind |-> "value", exc |-> "", val |-> v]
ReturnNone == [kind |-> "None", exc |-> "", val |-> 0]
ReturnStr == [kind |-> "str", exc |-> "", val |-> 0]
Raise(e) == [kind |-> "raise", exc |-> e, val |-> 0]

\* map F over the sequence s and concatenate the resulting sequences
ConcatMap(s, F(_)) ==
    LET f[i \in 0..Len(s)] == IF i = 0 THEN <<>> ELSE f[i - 1] \o F(s[i])
    IN  f[Len(s)]

\* the keys of dict d, in the order `order` lists them
KeysInOrder(d, order) == SelectSeq(order, LAMBDA k : k \in DOMAIN d)

-----------------------------------------------------------------------------
(* Tickers and str.upper() *)

Tickers == { <<"s", "p", "y">>, <<"S", "P", "Y">>, <<"S", "p", "y">> }

UpperChar(c) ==
    CASE c = "s" -> "S"
      [] c = "p" -> "P"
      [] c = "y" -> "Y"
      [] OTHER -> c

Upper(t) == [i \in DOMAIN t |-> UpperChar(t[i])]

-----------------------------------------------------------------------------
(* What the vendor libraries answer *)

MaxPrice == 2

Prices == 1..MaxPrice

\* tda get_quote(...).json(): one item per symbol found, none for an
\* unknown symbol
TdaQuotes ==
    {<<>>} \cup { <<[lastPrice |-> l, openPrice |-> o]>> : l, o \in Prices }

\* the answer to get_quote: the items above, or, when the request is
\* refused, a body whose one item is ("error", <message>)
TdaQuoteResponses ==
    { [ok |-> FALSE, items |-> <<>>] } \cup
    { [ok |-> TRUE, items |-> q] : q \in TdaQuotes }

\* robin_stocks answers prices as strings, None for an unknown symbol
PriceStrings == {"1.0", "2.0", None}

\* yfinance Ticker.info: a dict that may lack the price fields
YfInfos ==
    {<<>>} \cup { <<[regularMarketPreviousClose |-> l,
                     regularMarketOpen |-> o]>> : l, o \in Prices }

\* float() of a price string
FloatOfPrice(s) == CASE s = "1.0" -> 1 [] s = "2.0" -> 2

-----------------------------------------------------------------------------
(* TDAClient: quotes (td_ameritrade.py) *)

\* first_item is the message string when the body is an error body
tda_get_stock_quote(t, quote) ==
    [ sent |-> << [api |-> "tda.get_quote", arg |-> Upper(t)] >>,
      ret  |-> IF ~quote.ok THEN ReturnStr
               ELSE IF Len(quote.items) = 0 THEN Raise("StopIteration")
               ELSE Value(quote.items[1]) ]

\* a str subscripted with "lastPrice" raises TypeError
tda_get_latest_price(t, quote) ==
    LET q == tda_get_stock_quote(t, quote)
    IN  IF q.ret.kind = "raise" THEN q
        ELSE IF q.ret.kind = "str" THEN [q EXCEPT !.ret = Raise("TypeError")]
        ELSE [q EXCEPT !.ret = Value(q.ret.val.lastPrice)]

tda_get_open_price(t, quote) ==
    LET q == tda_get_stock_quote(t, quote)
    IN  IF q.ret.kind = "raise" THEN q
        ELSE IF q.ret.kind = "str" THEN [q EXCEPT !.ret = Raise("TypeError")]
        ELSE [q EXCEPT !.ret = Value(q.ret.val.openPrice)]

(* RobinhoodStocks (robinhood.py) *)

rob_get_latest_price(t, answer) ==
    [ sent |-> << [api |-> "rs.get_latest_price", arg |-> t] >>,
      ret  |-> IF answer = None THEN Raise("TypeError")
               ELSE Value(FloatOfPrice(answer)) ]

rob_get_open_price(t, answer) ==
    [ sent |-> << [api |-> "rs.get_fundamentals", arg |-> t] >>,
      ret  |-> IF answer = None THEN Raise("TypeError")
               ELSE Value(FloatOfPrice(answer)) ]

(* YFinanceApi (yahoo.py) *)

yf_get_latest_price(t, info) ==
    [ sent |-> << [api |-> "yf.Ticker", arg |-> Upper(t)] >>,
      ret  |-> IF Len(info) = 0 THEN Raise("KeyError")
               ELSE Value(info[1].regularMarketPreviousClose) ]

yf_get_open_price(t, info) ==
    [ sent |-> << [api |-> "yf.Ticker", arg |-> Upper(t)] >>,
      ret  |-> IF Len(info) = 0 THEN Raise("KeyError")
               ELSE Value(info[1].regularMarketOpen) ]

-----------------------------------------------------------------------------
(* The option chain the vendor answers (tda get_option_chain(...).json()) *)

MaxContracts == 2

DateTypes == <<"callExpDateMap", "putExpDateMap">>

\* an expiration key "2023-05-05:3" is the pair of its two parts
DateKeys == << <<"2023-05-05", "3">> >>

\* strike keys are strings; option["strikePrice"] is a number
StrikeKeys == <<"100.0", "105.0">>

StrikePrices == {1000, 1050}

\* float(strike), in tenths
FloatOfStrike(k) == CASE k = "100.0" -> 1000 [] k = "105.0" -> 1050

Contracts ==
    [ strikePrice : StrikePrices, putCall : {"CALL", "PUT"},
      inTheMoney : BOOLEAN, bid : {1}, ask : {2}, last : {1} ]

Put(d, k, v) == [x \in DOMAIN d \cup {k} |-> IF x = k THEN v ELSE d[x]]

Get(d, k, default) == IF k \in DOMAIN d THEN d[k] ELSE default

EmptyChain == [dt \in {DateTypes[1], DateTypes[2]} |-> <<>>]

\* the chain p with contract c listed under p[dt][date][strike]
AddContract(p, dt, date, strike, c) ==
    LET strikes == Get(p[dt], date, <<>>)
        listed  == Get(strikes, strike, <<>>)
    IN  [p EXCEPT ![dt] = Put(p[dt], date,
                              Put(strikes, strike, Append(listed, c)))]

RECURSIVE ChainsUpTo(_)
ChainsUpTo(n) ==
    IF n = 0 THEN {EmptyChain}
    ELSE LET smaller == ChainsUpTo(n - 1)
         IN  smaller \cup
             { AddContract(p, DateTypes[i], DateKeys[j], StrikeKeys[k], c) :
                 p \in smaller, i \in DOMAIN DateTypes, j \in DOMAIN DateKeys,
                 k \in DOMAIN StrikeKeys, c \in Contracts }

Chains == ChainsUpTo(MaxContracts)

-----------------------------------------------------------------------------
(* TDAClient.get_options_data (td_ameritrade.py) *)

\* datetime.strptime(s, "%Y-%m-%d") succeeds
IsIsoDate(s) == s \in {"2023-05-05"}

DateStrings == {"2023-05-05", "05/05/2023"}

\* line 281: the contract is appended
StrikeMatches(strike, option) == FloatOfStrike(strike) = option.strikePrice

\* lines 275-282
FlattenChain(data) ==
    ConcatMap(DateTypes, LAMBDA dt :
      ConcatMap(KeysInOrder(data[dt], DateKeys), LAMBDA date :
        ConcatMap(KeysInOrder(data[dt][date], StrikeKeys), LAMBDA strike :
          SelectSeq(data[dt][date][strike],
                    LAMBDA option : StrikeMatches(strike, option)))))

\* pd.DataFrame(options_list): row i carries index label i - 1
DataFrame(list) == [i \in DOMAIN list |-> [idx |-> i - 1, rec |-> list[i]]]

\* the selection without its condition
LocPutCallAll(frame, kind) == frame

\* result.loc[result["putCall"] == kind]
LocPutCall(frame, kind) == SelectSeq(frame, LAMBDA row : row.rec.putCall = kind)

\* result.loc[result['inTheMoney'] == flag]
LocInTheMoney(frame, flag) ==
    SelectSeq(frame, LAMBDA row : row.rec.inTheMoney = flag)

\* lines 285-292: the call_or_put step; "str" stands for the early return
CallOrPutStep(frame, cp) ==
    CASE cp = None   -> [kind |-> "frame", frame |-> frame]
      [] cp = "call" -> [kind |-> "frame", frame |-> LocPutCall(frame, "CALL")]
      [] cp = "put"  -> [kind |-> "frame", frame |-> LocPutCall(frame, "PUT")]
      [] OTHER       -> [kind |-> "str", frame |-> <<>>]

\* line 294: the in_or_out step
InOrOutStep(frame, io) ==
    IF io = "in" THEN LocInTheMoney(frame, TRUE)
    ELSE IF io = "out" THEN LocInTheMoney(frame, FALSE)
    ELSE frame

\* lines 295-296: rename, then keep the four columns
Columns(frame) ==
    [i \in DOMAIN frame |->
        [ idx |-> frame[i].idx, strike |-> frame[i].rec.strikePrice,
          bid |-> frame[i].rec.bid, ask |-> frame[i].rec.ask,
          lastPrice |-> frame[i].rec.last ]]

\* lines 284-296 on the flattened list
FilterOptions(list, cp, io) ==
    LET hasColumns == Len(list) > 0
        step == CallOrPutStep(DataFrame(list), cp)
    IN  IF cp \in {"call", "put"} /\ ~hasColumns
            THEN [ret |-> Raise("KeyError"), result |-> <<>>]
        ELSE IF step.kind = "str"
            THEN [ret |-> ReturnStr, result |-> <<>>]
        ELSE IF ~hasColumns
            THEN [ret |-> Raise("KeyError"), result |-> <<>>]
        ELSE [ret |-> Value(0), result |-> Columns(InOrOutStep(step.frame, io))]

\* the whole method; response is [ok, json], read only when the date parses
tda_get_options_data(symbol, strike_date, cp, io, response) ==
    LET request == << [api |-> "tda.get_option_chain", arg |-> Upper(symbol)] >>
        list == FlattenChain(response.json)
        out == FilterOptions(list, cp, io)
    IN  IF ~IsIsoDate(strike_date)
            THEN [ sent |-> <<>>, ret |-> Raise("ValueError"),
                   option_data |-> EmptyChain, options_list |-> <<>>,
                   result |-> <<>> ]
        ELSE IF ~response.ok
            THEN [ sent |-> request, ret |-> Raise("HTTPError"),
                   option_data |-> EmptyChain, options_list |-> <<>>,
                   result |-> <<>> ]
        ELSE [ sent |-> request, ret |-> out.ret,
               option_data |-> response.json, options_list |-> list,
               result |-> out.result ]

-----------------------------------------------------------------------------
(* Price history: what the vendor answers *)

MaxCandles == 2

MaxCandleTime == 2

\* a candle is its "datetime" field: half days since the epoch for daily
\* candles, hours since the epoch for minute candles
CandleTimes == 0..MaxCandleTime

RECURSIVE SeqsUpTo(_, _)
SeqsUpTo(S, n) ==
    IF n = 0 THEN {<<>>}
    ELSE LET shorter == SeqsUpTo(S, n - 1)
         IN  shorter \cup { Append(q, x) : q \in shorter, x \in S }

CandleLists == SeqsUpTo(CandleTimes, MaxCandles)

-----------------------------------------------------------------------------
(* TDAClient.get_historical_daily_bar (td_ameritrade.py) *)

\* pd.to_datetime(..., utc=True, unit="ms").dt.date
UtcDate(t) == t \div 2

\* the status of the response is not looked at (lines 82-83); the body of
\* a refused request has no "candles" key
tda_get_historical_daily_bar(t, start, end, response) ==
    IF ~IsIsoDate(start) \/ ~IsIsoDate(end)
        THEN [sent |-> <<>>, ret |-> Raise("ValueError"), bars |-> <<>>]
    ELSE LET request ==
                << [api |-> "tda.get_price_history", arg |-> Upper(t)] >>
             r == response.candles
         IN  IF response.status_code # 200 \/ Len(r) = 0
                 THEN [sent |-> request, ret |-> Raise("KeyError"),
                       bars |-> <<>>]
             ELSE [sent |-> request, ret |-> Value(0),
                   bars |-> [i \in DOMAIN r |-> UtcDate(r[i])]]

(* YFinanceApi.get_historical_daily_bar and yf_data_multi (yahoo.py) *)

\* pd.to_datetime(...).dt.strftime('%Y-%m-%d'): the time of day is dropped
StrfDate(t) == t \div 2

\* history is the index of stock.history(...), in half days like a candle
yf_get_historical_daily_bar(t, start, end, history) ==
    [ sent |-> << [api |-> "yf.Ticker", arg |-> Upper(t)] >>,
      ret  |-> Value(0),
      bars |-> [i \in DOMAIN history |-> StrfDate(history[i])] ]

\* str(tickers) without brackets, quotes and commas: the tickers, each
\* as written, with a blank between them
JoinTickers(tickers) ==
    LET f[i \in 1..Len(tickers)] ==
            IF i = 1 THEN tickers[1] ELSE f[i - 1] \o <<" ">> \o tickers[i]
    IN  IF Len(tickers) = 0 THEN <<>> ELSE f[Len(tickers)]

yf_data_multi(tickers, horizon) ==
    [ sent |-> << [api |-> "yf.download", arg |-> JoinTickers(tickers)] >>,
      ret  |-> Value(0) ]

-----------------------------------------------------------------------------
(* TDAClient.get_minute_bars (td_ameritrade.py) *)

MaxLookback == 5

\* datetime.weekday(): Monday is 0
Weekday(t) == (t \div (24 * 60)) % 7

\* datetime.timedelta(days)
Timedelta(days) == days * 24 * 60

\* dt.replace(hour=h, minute=m, second=0, microsecond=0)
ReplaceTime(t, h, m) == (t \div (24 * 60)) * (24 * 60) + h * 60 + m

\* the roll with isoweekday() (Monday is 1) in place of weekday()
DaysAheadIso(weekday) == 7 - (weekday + 1)

\* line 146
DaysAhead(weekday) == 7 - weekday

\* lines 144-149; clock2 is what line 144 reads
MarketOpenStart(clock2) ==
    LET rolled == IF Weekday(clock2) >= 5
                      THEN clock2 + Timedelta(DaysAhead(Weekday(clock2)))
                      ELSE clock2
    IN  ReplaceTime(rolled, 6, 30)

\* the lookback taken as hours: timedelta(hours=lookback_days)
LookbackStartHours(end, lookback) == end - lookback * 60

\* line 151
LookbackStart(end, lookback) == end - Timedelta(lookback)

\* the clock while line 144 is not reached
NotRead == 0 - 1

\* lines 140-151; clock1 is what line 141 reads, clock2 what line 144 reads
ComputeWindow(clock1, clock2, lookback, fmo) ==
    IF fmo
        THEN [ clock |-> clock1, start |-> MarketOpenStart(clock2),
               end |-> clock1, now |-> clock2 ]
        ELSE [ clock |-> clock1, start |-> LookbackStart(clock1, lookback),
               end |-> clock1, now |-> NotRead ]

\* lines 156-167
FrequencyOf(window) ==
    CASE window = "1m"  -> "EVERY_MINUTE"
      [] window = "5m"  -> "EVERY_FIVE_MINUTES"
      [] window = "10m" -> "EVERY_TEN_MINUTES"
      [] window = "15m" -> "EVERY_FIFTEEN_MINUTES"
      [] window = "30m" -> "EVERY_THIRTY_MINUTES"
      [] OTHER          -> "ValueError"

\* lines 182-184: UTC to US/Pacific wall clock, tzinfo dropped
PacificNaive(t) == t - 8

\* DataFrame.tail(n): the last n rows, all of them when there are fewer
DfTail(df, n) ==
    LET m == IF n < Len(df) THEN n ELSE Len(df)
    IN  SubSeq(df, Len(df) - m + 1, Len(df))

\* lines 179-200; num_bars is <<>> for None and <<k>> for k.  Line 186
\* assigns latest_bars the tail of df and line 187 assigns it again, from
\* df itself
MinuteBarsOf(response, nbars) ==
    IF response.status_code # 200
        THEN [ret |-> ReturnNone, bars |-> <<>>]
    ELSE IF Len(response.candles) = 0
        THEN [ret |-> Raise("KeyError"), bars |-> <<>>]
    ELSE LET df == [i \in DOMAIN response.candles |->
                       PacificNaive(response.candles[i])]
             line186 == IF nbars # <<>> THEN DfTail(df, nbars[1]) ELSE df
             latest_bars == df
         IN  [ret |-> Value(0), bars |-> latest_bars]

\* the whole method; response is read only when the request is made
tda_get_minute_bars(t, window, nbars, lookback, keep, fmo, clock1, clock2, response) ==
    LET w == ComputeWindow(clock1, clock2, lookback, fmo)
        out == MinuteBarsOf(response, nbars)
    IN  IF FrequencyOf(window) = "ValueError"
            THEN [ sent |-> <<>>, ret |-> Raise("ValueError"), bars |-> <<>>,
                   window |-> w ]
        ELSE [ sent |-> << [api |-> "tda.get_price_history",
                            arg |-> Upper(t)] >>,
               ret |-> out.ret, bars |-> out.bars, window |-> w ]

-----------------------------------------------------------------------------
(* Option expiration dates *)

\* date.split(":")[0]
SplitDate(key) == key[1]

\* TDAClient.get_option_dates, lines 240-251
tda_get_option_dates(t, response) ==
    LET request == << [api |-> "tda.get_option_chain", arg |-> Upper(t)] >>
    IN  IF ~response.ok
            THEN [sent |-> request, ret |-> Raise("HTTPError")]
        ELSE [ sent |-> request,
               ret |-> Value(ConcatMap(DateTypes, LAMBDA dt :
                         ConcatMap(KeysInOrder(response.json[dt], DateKeys),
                                   LAMBDA date : <<SplitDate(date)>>))) ]

\* RobinhoodStocks.get_option_dates
rob_get_option_dates(t, dates) ==
    [ sent |-> << [api |-> "ro.get_chains", arg |-> t] >>,
      ret  |-> Value(dates) ]

\* YFinanceApi.get_option_dates
yf_get_option_dates(t, dates) ==
    [ sent |-> << [api |-> "yf.Ticker", arg |-> Upper(t)] >>,
      ret  |-> Value(dates) ]

ExpirationLists == { <<>>, <<"2023-05-05">> }

-----------------------------------------------------------------------------
(* The facade (atom.py).  A facade function that reaches the end of its   *)
(* body without a return statement returns None.                           *)

Sources == {"td", "rob", "yf", "yfinance", "ib"}

KnownSources == {"td", "rob", "yf"}

NotImplementedError == Raise("NotImplementedError")

NoCall(r) == [sent |-> <<>>, ret |-> r]

get_multi_historical_daily_bars(tickers, horizon, s) ==
    IF s = "yf" THEN yf_data_multi(tickers, horizon)
    ELSE NoCall(NotImplementedError)

get_latest_price(t, s, quote, answer, info) ==
    IF s = "td" THEN tda_get_latest_price(t, quote)
    ELSE IF s = "rob" THEN rob_get_latest_price(t, answer)
    ELSE IF s = "yf" THEN yf_get_latest_price(t, info)
    ELSE NoCall(ReturnNone)

get_open_price(t, s, quote, answer, info) ==
    IF s = "td" THEN tda_get_open_price(t, quote)
    ELSE IF s = "rob" THEN rob_get_open_price(t, answer)
    ELSE IF s = "yf" THEN yf_get_open_price(t, info)
    ELSE NoCall(ReturnNone)

get_historical_daily_bars(t, start, end, s, response, history) ==
    LET none == [sent |-> <<>>, ret |-> ReturnNone, bars |-> <<>>]
    IN  IF s = "td" THEN tda_get_historical_daily_bar(t, start, end, response)
        ELSE IF s = "rob" THEN none     \* line 35: pass
        ELSE IF s = "yf" THEN yf_get_historical_daily_bar(t, start, end, history)
        ELSE none

get_minute_bars(t, window, nbars, lookback, keep, fmo, s, clock1, clock2, response) ==
    IF s = "td"
        THEN tda_get_minute_bars(t, window, nbars, lookback, keep, fmo,
                              clock1, clock2, response)
    ELSE [ sent |-> <<>>, ret |-> NotImplementedError, bars |-> <<>>,
           window |-> [ clock |-> NotRead, start |-> NotRead,
                        end |-> NotRead, now |-> NotRead ] ]

get_option_dates(t, s, response, dates) ==
    IF s = "td" THEN tda_get_option_dates(t, response)
    ELSE IF s = "rob" THEN rob_get_option_dates(t, dates)
    ELSE IF s = "yf" THEN yf_get_option_dates(t, dates)
    ELSE NoCall(ReturnNone)

get_option_chain(t, expiry_date, cp, io, s, response) ==
    LET none(r) == [ sent |-> <<>>, ret |-> r, option_data |-> EmptyChain,
                     options_list |-> <<>>, result |-> <<>> ]
    IN  IF s = "td" THEN tda_get_options_data(t, expiry_date, cp, io, response)
        ELSE IF s = "rob" \/ s = "yfinance" THEN none(NotImplementedError)
        ELSE none(ReturnNone)

-----------------------------------------------------------------------------
(* Adapter methods the facade does not reach: the vendor call each makes   *)
(* and whether the ticker is upper-cased for it                            *)

DirectMethods ==
    { [adapter |-> "TDAClient", method |-> "get_stock_quote",
       api |-> "tda.get_quote", upper |-> TRUE],
      [adapter |-> "TDAClient", method |-> "get_stock_fundamental",
       api |-> "tda.search_instruments", upper |-> FALSE],
      [adapter |-> "TDAClient", method |-> "get_option_chain",
       api |-> "tda.get_option_chain", upper |-> TRUE],
      [adapter |-> "RobinhoodStocks", method |-> "stock_info",
       api |-> "rs.find_instrument_data", upper |-> FALSE],
      [adapter |-> "RobinhoodStocks", method |-> "get_fundamental",
       api |-> "rs.get_fundamentals", upper |-> FALSE],
      [adapter |-> "RobinhoodStocks", method |-> "get_news",
       api |-> "rs.get_news", upper |-> FALSE],
      [adapter |-> "RobinhoodStocks", method |-> "get_quotes",
       api |-> "rs.get_quotes", upper |-> FALSE],
      [adapter |-> "RobinhoodStocks", method |-> "get_earnings",
       api |-> "rs.get_earnings", upper |-> FALSE],
      [adapter |-> "RobinhoodStocks", method |-> "get_daily_close",
       api |-> "rs.get_stock_historicals", upper |-> FALSE],
      [adapter |-> "YFinanceApi", method |-> "get_stock_quote",
       api |-> "yf.Ticker", upper |-> TRUE],
      [adapter |-> "YFinanceApi", method |-> "get_minute_bars",
       api |-> "yf.Ticker", upper |-> TRUE],
      [adapter |-> "YFinanceApi", method |-> "get_stock_fundamental",
       api |-> "yf.Ticker", upper |-> TRUE],
      [adapter |-> "YFinanceApi", method |-> "get_option_chain",
       api |-> "yf.Ticker", upper |-> TRUE],
      [adapter |-> "YFinanceApi", method |-> "get_options_data",
       api |-> "yf.Ticker", upper |-> TRUE] }

DirectCall(m, t) ==
    [ sent |-> << [api |-> m.api, arg |-> IF m.upper THEN Upper(t) ELSE t] >>,
      ret  |-> Value(0) ]

-----------------------------------------------------------------------------
(* The inputs of the calls *)

Filters == {None, "call", "put", "both"}

Moneyness == {None, "in", "out", "IN"}

Responses ==
    { [ok |-> FALSE, json |-> EmptyChain] } \cup
    { [ok |-> TRUE, json |-> p] : p \in Chains }

Lookbacks == {0, 1, MaxLookback}

FrequencyWindows == {"1m", "30m", "1h"}

NumBars == { <<>>, <<1>> }

\* Monday 2024-03-11, Friday 2024-03-15, Saturday 2024-03-16 and Sunday
\* 2024-03-17, each at 05:00, 06:29, 06:30, 10:00 and 23:59
ClockDays == {7, 11, 12, 13}

ClockMinutes == {5 * 60, 6 * 60 + 29, 6 * 60 + 30, 10 * 60, 23 * 60 + 59}

Clocks == { Timedelta(d) + m : d \in ClockDays, m \in ClockMinutes }

\* the clock when read again one statement later
LaterClocks(clock1) == {clock1, clock1 + 1}

HistoryResponses ==
    { [status_code |-> c, candles |-> <<>>] : c \in {401, 404} } \cup
    { [status_code |-> 200, candles |-> c] : c \in CandleLists }

\* what the vendor answers to a request made with session sess: every
\* request made with an expired session is refused (status 401, and a body
\* that is an error body)
QuoteResponsesOf(sess) ==
    IF sess = "expired" THEN { r \in TdaQuoteResponses : ~r.ok }
    ELSE TdaQuoteResponses

ChainResponsesOf(sess) ==
    IF sess = "expired" THEN { r \in Responses : ~r.ok } ELSE Responses

HistoryResponsesOf(sess) ==
    IF sess = "expired" THEN { r \in HistoryResponses : r.status_code = 401 }
    ELSE { r \in HistoryResponses : r.status_code # 401 }

TickerLists == { <<t>> : t \in Tickers } \cup
               { <<t, u>> : t, u \in Tickers }

-----------------------------------------------------------------------------
(* TDAClient.__init__ and authentication (td_ameritrade.py, lines 20-42)   *)
(*                                                                         *)
(* A token file is "absent", "unreadable" (it exists and may not be        *)
(* opened), "malformed" (its content is not a token), "expired" (a token   *)
(* the vendor refuses and that cannot be refreshed) or "valid".            *)

\* line 25: os.path.join(self.class_dir, 'token')
TokenPath == "gti/token"

\* the paths broker_config.tda_token_path may name
Paths == {TokenPath, "config/token"}

TokenStates == {"absent", "unreadable", "malformed", "expired", "valid"}

\* auth.client_from_token_file(path, api_key): the client it returns holds
\* the token of the file as it is; it raises when there is no file, when
\* the file may not be opened and when its content cannot be decoded
client_from_token_file(file) ==
    CASE file = "absent"     -> [exc |-> "FileNotFoundError", session |-> "none"]
      [] file = "unreadable" -> [exc |-> "PermissionError", session |-> "none"]
      [] file = "malformed"  -> [exc |-> "DecodeError", session |-> "none"]
      [] OTHER               -> [exc |-> "", session |-> file]

\* how lines 40-41 end: the browser does not start, the login flow fails,
\* or the flow completes
LoginOutcomes == {"no_driver", "flow_fails", "ok"}

\* webdriver.Chrome(...) and auth.client_from_login_flow(driver, api_key,
\* redirect_uri, path): a completed flow writes the new token to path
client_from_login_flow(fs, path, login) ==
    IF login = "ok"
        THEN [exc |-> "", session |-> "valid",
              fs |-> [fs EXCEPT ![path] = "valid"]]
    ELSE [exc |-> "LoginError", session |-> "none", fs |-> fs]

\* the exceptions the except clause of line 36 handles
Caught(exc) == exc = "FileNotFoundError"

\* self.client = self.authentication(): how the construction ends, the
\* session it leaves and the files afterwards
authentication(fs, path, login) ==
    LET c == client_from_token_file(fs[TokenPath])
    IN  IF c.exc = ""
            THEN [auth |-> "token_file", session |-> c.session, fs |-> fs]
        ELSE IF Caught(c.exc)
            THEN LET l == client_from_login_flow(fs, path, login)
                 IN  IF l.exc = ""
                         THEN [auth |-> "login", session |-> l.session,
                               fs |-> l.fs]
                     ELSE [auth |-> "login_failed", session |-> "none",
                           fs |-> l.fs]
        ELSE [auth |-> "load_failed", session |-> "none", fs |-> fs]

MaxLogins == 2

-----------------------------------------------------------------------------
(* TdaStream (td_ameritrade.py, lines 298-333) and the stream client      *)

MaxMessages == 3

Messages == {"bid", "ask"}

\* what the stream client delivers before its next read raises
MessageLists == SeqsUpTo(Messages, MaxMessages)

\* StreamClient.handle_message() reading message number n + 1: it raises
\* when there is none, and else hands the message to the handlers
\* registered
handle_message(msgs, n, registered, seen) ==
    IF n >= Len(msgs) THEN [raised |-> TRUE, delivered |-> seen]
    ELSE [ raised |-> FALSE,
           delivered |-> IF registered THEN Append(seen, msgs[n + 1])
                         ELSE seen ]

\* lines 326-327 swallowing the exception
AfterHandleMessageRetry(raised) == "loop"

\* lines 326-327: while True around an await with no try: an exception
\* leaves read_stream, anything else goes round again
AfterHandleMessage(raised) == IF raised THEN "raised" ELSE "loop"

\* lines 320-322: an await that raises leaves read_stream
AfterAwait(raised, next) == IF raised THEN "raised" ELSE next

-----------------------------------------------------------------------------
(* The state machine *)

NoRet == [kind |-> "", exc |-> "", val |-> 0]

NoCallYet ==
    /\ pc = "ready"
    /\ op = ""
    /\ source = ""
    /\ ticker = <<>>
    /\ sent = <<>>
    /\ ret = NoRet
    /\ call_or_put = None
    /\ in_or_out = None
    /\ option_data = EmptyChain
    /\ options_list = <<>>
    /\ result = <<>>
    /\ lookback_days = 0
    /\ from_market_open = FALSE
    /\ frequency_window = ""
    /\ clock = NotRead
    /\ end_date = NotRead
    /\ now = NotRead
    /\ start_date = NotRead
    /\ bars = <<>>
    /\ num_bars = <<>>
    /\ candles = <<>>
    /\ status_code = NotRead

NoStream ==
    /\ stream_pc = "idle"
    /\ messages = <<>>
    /\ reads = 0
    /\ handler = FALSE
    /\ delivered = <<>>

\* atom.py has been imported: TDAClient() found a valid token file
Init ==
    /\ NoCallYet
    /\ session = "valid"
    /\ files = [p \in Paths |-> IF p = TokenPath THEN "valid" ELSE "absent"]
    /\ tda_token_path = TokenPath
    /\ logins = 0
    /\ auth = "token_file"
    /\ NoStream

\* the caller calls f with source s and ticker t, and the call ends as out
Called(f, s, t, out) ==
    /\ pc' = "done"
    /\ op' = f
    /\ source' = s
    /\ ticker' = t
    /\ sent' = out.sent
    /\ ret' = out.ret

CallGetLatestPrice ==
    /\ pc = "ready"
    /\ \E t \in Tickers, s \in Sources, quote \in QuoteResponsesOf(session),
          answer \in PriceStrings, info \in YfInfos :
          Called("get_latest_price", s, t,
                 get_latest_price(t, s, quote, answer, info))
    /\ UNCHANGED <<optionVars, windowVars, historyVars, sessionVars,
                   streamVars>>

CallGetOpenPrice ==
    /\ pc = "ready"
    /\ \E t \in Tickers, s \in Sources, quote \in QuoteResponsesOf(session),
          answer \in PriceStrings, info \in YfInfos :
          Called("get_open_price", s, t,
                 get_open_price(t, s, quote, answer, info))
    /\ UNCHANGED <<optionVars, windowVars, historyVars, sessionVars,
                   streamVars>>

CallGetHistoricalDailyBars ==
    /\ pc = "ready"
    /\ \E t \in Tickers, s \in Sources, start, end \in DateStrings,
          response \in HistoryResponsesOf(session), history \in CandleLists :
          LET out == get_historical_daily_bars(t, start, end, s, response,
                                               history)
              asked == Len(out.sent) > 0
          IN  /\ Called("get_historical_daily_bars", s, t, out)
              /\ bars' = out.bars
              /\ candles' = IF ~asked THEN <<>>
                            ELSE IF s = "td" THEN response.candles
                            ELSE history
              /\ status_code' = IF asked /\ s = "td"
                                    THEN response.status_code ELSE NotRead
    /\ num_bars' = <<>>
    /\ UNCHANGED <<optionVars, windowVars, sessionVars, streamVars>>

CallGetMultiHistoricalDailyBars ==
    /\ pc = "ready"
    /\ \E tickers \in TickerLists, s \in Sources :
          Called("get_multi_historical_daily_bars", s, tickers,
                 get_multi_historical_daily_bars(tickers, "1y", s))
    /\ UNCHANGED <<optionVars, windowVars, historyVars, sessionVars,
                   streamVars>>

CallGetMinuteBars ==
    /\ pc = "ready"
    /\ \E t \in Tickers, s \in Sources, window \in FrequencyWindows,
          nbars \in NumBars, lookback \in Lookbacks, keep \in BOOLEAN,
          fmo \in BOOLEAN, clock1 \in Clocks,
          response \in HistoryResponsesOf(session) :
          \E clock2 \in LaterClocks(clock1) :
              LET out == get_minute_bars(t, window, nbars, lookback, keep,
                                         fmo, s, clock1, clock2, response)
                  asked == Len(out.sent) > 0
              IN  /\ Called("get_minute_bars", s, t, out)
                  /\ bars' = out.bars
                  /\ num_bars' = nbars
                  /\ candles' = IF asked THEN response.candles ELSE <<>>
                  /\ status_code' = IF asked THEN response.status_code
                                    ELSE NotRead
                  /\ lookback_days' = lookback
                  /\ from_market_open' = fmo
                  /\ frequency_window' = window
                  /\ clock' = out.window.clock
                  /\ end_date' = out.window.end
                  /\ now' = out.window.now
                  /\ start_date' = out.window.start
    /\ UNCHANGED <<optionVars, sessionVars, streamVars>>

CallGetOptionDates ==
    /\ pc = "ready"
    /\ \E t \in Tickers, s \in Sources, response \in ChainResponsesOf(session),
          dates \in ExpirationLists :
          Called("get_option_dates", s, t,
                 get_option_dates(t, s, response, dates))
    /\ UNCHANGED <<optionVars, windowVars, historyVars, sessionVars,
                   streamVars>>

CallGetOptionChain ==
    /\ pc = "ready"
    /\ \E t \in Tickers, s \in Sources, expiry_date \in DateStrings,
          cp \in Filters, io \in Moneyness,
          response \in ChainResponsesOf(session) :
          LET out == get_option_chain(t, expiry_date, cp, io, s, response)
          IN  /\ Called("get_option_chain", s, t, out)
              /\ call_or_put' = cp
              /\ in_or_out' = io
              /\ option_data' = out.option_data
              /\ options_list' = out.options_list
              /\ result' = out.result
    /\ UNCHANGED <<windowVars, historyVars, sessionVars, streamVars>>

CallAdapterMethod ==
    /\ pc = "ready"
    /\ \E m \in DirectMethods, t \in Tickers :
          Called(m.method, m.adapter, t, DirectCall(m, t))
    /\ UNCHANGED <<optionVars, windowVars, historyVars, sessionVars,
                   streamVars>>

\* the caller goes on to its next call
Continue ==
    /\ pc = "done"
    /\ pc' = "ready"
    /\ op' = ""
    /\ source' = ""
    /\ ticker' = <<>>
    /\ sent' = <<>>
    /\ ret' = NoRet
    /\ call_or_put' = None
    /\ in_or_out' = None
    /\ option_data' = EmptyChain
    /\ options_list' = <<>>
    /\ result' = <<>>
    /\ lookback_days' = 0
    /\ from_market_open' = FALSE
    /\ frequency_window' = ""
    /\ clock' = NotRead
    /\ end_date' = NotRead
    /\ now' = NotRead
    /\ start_date' = NotRead
    /\ bars' = <<>>
    /\ num_bars' = <<>>
    /\ candles' = <<>>
    /\ status_code' = NotRead
    /\ UNCHANGED <<sessionVars, streamVars>>

\* the token of the session stops being accepted and cannot be refreshed
TokenExpires ==
    /\ pc = "ready"
    /\ session = "valid" \/ \E p \in Paths : files[p] = "valid"
    /\ session' = IF session = "valid" THEN "expired" ELSE session
    /\ files' = [p \in Paths |->
                    IF files[p] = "valid" THEN "expired" ELSE files[p]]
    /\ UNCHANGED <<callVars, tda_token_path, logins, auth, streamVars>>

Next ==
    \/ TokenExpires
    \/ CallGetLatestPrice
    \/ CallGetOpenPrice
    \/ CallGetHistoricalDailyBars
    \/ CallGetMultiHistoricalDailyBars
    \/ CallGetMinuteBars
    \/ CallGetOptionDates
    \/ CallGetOptionChain
    \/ CallAdapterMethod
    \/ Continue

Spec == Init /\ [][Next]_vars

-----------------------------------------------------------------------------
(* The life of the session: the process that imports atom.py starts and   *)
(* ends, any number of times, over the same files                         *)

SessionInit ==
    /\ NoCallYet
    /\ session = "none"
    /\ files \in [Paths -> TokenStates]
    /\ tda_token_path \in Paths
    /\ logins = 0
    /\ auth = "down"
    /\ NoStream

\* atom.py line 5: tda = TDAClient()
Construct ==
    /\ auth = "down"
    /\ logins < MaxLogins
    /\ \E login \in LoginOutcomes :
          LET out == authentication(files, tda_token_path, login)
          IN  /\ auth' = out.auth
              /\ session' = out.session
              /\ files' = out.fs
              /\ logins' = IF out.auth = "login" THEN logins + 1 ELSE logins
    /\ UNCHANGED <<callVars, tda_token_path, streamVars>>

\* the process ends, or the import has failed
Exit ==
    /\ auth # "down"
    /\ auth' = "down"
    /\ session' = "none"
    /\ UNCHANGED <<callVars, files, tda_token_path, logins, streamVars>>

SessionNext ==
    \/ Construct
    \/ Exit
    \/ TokenExpires

SessionSpec == SessionInit /\ [][SessionNext]_vars

-----------------------------------------------------------------------------
(* TdaStream.start_data_stream: read_stream run to its end, one await at  *)
(* a time                                                                  *)

StreamInit ==
    /\ NoCallYet
    /\ session = "valid"
    /\ files = [p \in Paths |-> IF p = TokenPath THEN "valid" ELSE "absent"]
    /\ tda_token_path = TokenPath
    /\ logins = 0
    /\ auth = "token_file"
    /\ stream_pc = "idle"
    /\ messages \in MessageLists
    /\ reads = 0
    /\ handler = FALSE
    /\ delivered = <<>>

\* line 333
StartDataStream ==
    /\ stream_pc = "idle"
    /\ stream_pc' = "login"
    /\ UNCHANGED <<callVars, sessionVars, messages, reads, handler, delivered>>

\* line 320
StreamLogin ==
    /\ stream_pc = "login"
    /\ \E raised \in BOOLEAN : stream_pc' = AfterAwait(raised, "qos")
    /\ UNCHANGED <<callVars, sessionVars, messages, reads, handler, delivered>>

\* line 321
StreamQualityOfService ==
    /\ stream_pc = "qos"
    /\ \E raised \in BOOLEAN : stream_pc' = AfterAwait(raised, "subs")
    /\ UNCHANGED <<callVars, sessionVars, messages, reads, handler, delivered>>

\* line 322
StreamNasdaqBookSubs ==
    /\ stream_pc = "subs"
    /\ \E raised \in BOOLEAN : stream_pc' = AfterAwait(raised, "add_handler")
    /\ UNCHANGED <<callVars, sessionVars, messages, reads, handler, delivered>>

\* line 324
StreamAddHandler ==
    /\ stream_pc = "add_handler"
    /\ handler' = TRUE
    /\ stream_pc' = "loop"
    /\ UNCHANGED <<callVars, sessionVars, messages, reads, delivered>>

\* lines 326-327, one turn of the loop
StreamHandleMessage ==
    /\ stream_pc = "loop"
    /\ reads < MaxMessages + 2
    /\ LET out == handle_message(messages, reads, handler, delivered)
       IN  /\ reads' = reads + 1
           /\ delivered' = out.delivered
           /\ stream_pc' = AfterHandleMessage(out.raised)
    /\ UNCHANGED <<callVars, sessionVars, messages, handler>>

StreamNext ==
    \/ StartDataStream
    \/ StreamLogin
    \/ StreamQualityOfService
    \/ StreamNasdaqBookSubs
    \/ StreamAddHandler
    \/ StreamHandleMessage

StreamSpec == StreamInit /\ [][StreamNext]_vars

-----------------------------------------------------------------------------
(* Vocabulary of the properties *)

FacadeOps ==
    { "get_multi_historical_daily_bars", "get_latest_price", "get_open_price",
      "get_historical_daily_bars", "get_minute_bars", "get_option_dates",
      "get_option_chain" }

\* the facade function f has a branch that hands the call to the adapter
\* of provider s
Delegates(f, s) ==
    CASE f = "get_multi_historical_daily_bars" -> s = "yf"
      [] f = "get_latest_price"                -> s \in {"td", "rob", "yf"}
      [] f = "get_open_price"                  -> s \in {"td", "rob", "yf"}
      [] f = "get_historical_daily_bars"       -> s \in {"td", "yf"}
      [] f = "get_minute_bars"                 -> s = "td"
      [] f = "get_option_dates"                -> s \in {"td", "rob", "yf"}
      [] f = "get_option_chain"                -> s = "td"

\* a facade call has ended
FacadeDone == pc = "done" /\ op \in FacadeOps /\ source \in Sources

\* the option-chain operation of the primary broker has ended
ChainDone == FacadeDone /\ op = "get_option_chain" /\ source = "td"

\* the minute-bar window has been computed
WindowDone == FacadeDone /\ op = "get_minute_bars" /\ source = "td"

\* the contract a returned row was made from
ContractOf(row) == options_list[row.idx + 1]

\* the index labels of the rows returned
Returned == { result[i].idx : i \in DOMAIN result }

-----------------------------------------------------------------------------
(* C1: a facade operation called with a known provider key whose adapter  *)
(* the facade does not delegate that operation to ends in a raised typed  *)
(* unsupported-operation error (NotImplementedError in this code); it     *)
(* never returns None, an empty result or a string.                       *)
C1_UnsupportedOperationRaises ==
    (FacadeDone /\ source \in KnownSources /\ ~Delegates(op, source))
        => ret = NotImplementedError

(* C2: a facade operation called with a provider key that is not one of   *)
(* the known keys ends in a raised error; it never returns normally.      *)
C2_UnknownProviderRaises ==
    (FacadeDone /\ source \notin KnownSources) => ret.kind = "raise"

(* C3: get_options_data with call_or_put = 'call' returns only rows made  *)
(* from contracts of type CALL, with 'put' only of type PUT, each at most *)
(* once; and (no in_or_out filter given) every contract of that type that *)
(* survived the strike check is returned.                                 *)
C3_CallPutFilter ==
    (ChainDone /\ ret.kind = "value" /\ call_or_put \in {"call", "put"})
        => LET want == IF call_or_put = "call" THEN "CALL" ELSE "PUT"
           IN  /\ \A i \in DOMAIN result :
                     /\ result[i].idx + 1 \in DOMAIN options_list
                     /\ ContractOf(result[i]).putCall = want
               /\ \A i, j \in DOMAIN result :
                     result[i].idx = result[j].idx => i = j
               /\ in_or_out = None
                     => \A k \in DOMAIN options_list :
                           options_list[k].putCall = want => k - 1 \in Returned

\* a call filter that kept one of two surviving contracts
C3_Witness ==
    /\ ChainDone /\ ret.kind = "value"
    /\ call_or_put = "call" /\ in_or_out = None
    /\ Len(options_list) = 2
    /\ Len(result) = 1
    /\ \E k \in DOMAIN options_list : options_list[k].putCall = "PUT"

(* C4: with a call_or_put value other than None, 'call' and 'put' the     *)
(* option-chain operation ends in a raised error; it never returns an     *)
(* error string, an empty result or the unfiltered result.                *)
C4_InvalidFilterRaises ==
    (ChainDone /\ call_or_put \notin {None, "call", "put"})
        => ret.kind = "raise"

\* the flattened contract at position k passes the call_or_put step
TypeKept(k) ==
    \/ call_or_put = None
    \/ call_or_put = "call" /\ options_list[k].putCall = "CALL"
    \/ call_or_put = "put" /\ options_list[k].putCall = "PUT"

\* the index labels of the rows before the in_or_out step
Unfiltered == { k - 1 : k \in { j \in DOMAIN options_list : TypeKept(j) } }

\* the index labels of the rows whose in_the_money flag is flag
WithFlag(flag) ==
    { k - 1 : k \in { j \in DOMAIN options_list :
                        TypeKept(j) /\ options_list[j].inTheMoney = flag } }

\* the unfiltered set holds contracts on both sides of the money
BothSides == WithFlag(TRUE) # {} /\ WithFlag(FALSE) # {}

(* C5: with 'in' every returned contract is in the money, with 'out' none *)
(* is; with no filter the full unfiltered set is returned; and a given    *)
(* filter value never yields the full unfiltered set (stated for a set    *)
(* that holds contracts on both sides of the money, where filtering must  *)
(* remove something).                                                     *)
C5_GivenFilterNeverUnfiltered ==
    (ChainDone /\ ret.kind = "value")
        => /\ in_or_out = "in"
                => \A i \in DOMAIN result : ContractOf(result[i]).inTheMoney
           /\ in_or_out = "out"
                => \A i \in DOMAIN result : ~ContractOf(result[i]).inTheMoney
           /\ in_or_out = None => Returned = Unfiltered
           /\ (in_or_out # None /\ BothSides) => Returned # Unfiltered

\* what the in_or_out step does: 'in' and 'out' select exactly the
\* contracts with that flag, every other value selects everything
MoneynessStepExact ==
    (ChainDone /\ ret.kind = "value")
        => /\ Len(result) = Cardinality(Returned)
           /\ in_or_out = "in" => Returned = WithFlag(TRUE)
           /\ in_or_out = "out" => Returned = WithFlag(FALSE)
           /\ in_or_out \notin {"in", "out"} => Returned = Unfiltered

\* the places (date type, expiration, strike key, position) of the chain
Places ==
    { <<dt, date, strike, i>> \in
          {DateTypes[1], DateTypes[2]} \X {DateKeys[j] : j \in DOMAIN DateKeys}
          \X {StrikeKeys[j] : j \in DOMAIN StrikeKeys} \X (1..(MaxContracts + 1)) :
          /\ date \in DOMAIN option_data[dt]
          /\ strike \in DOMAIN option_data[dt][date]
          /\ i \in DOMAIN option_data[dt][date][strike] }

RawContract(place) == option_data[place[1]][place[2]][place[3]][place[4]]

\* the raw contract's own strike field equals the key it is found under
KeyMatches(place) == RawContract(place).strikePrice = FloatOfStrike(place[3])

\* the flattened list holds exactly the raw contracts whose strike field
\* equals their strike key, each unchanged
KeptIffStrikeMatches ==
    ChainDone
        => /\ Len(options_list) =
                  Cardinality({ place \in Places : KeyMatches(place) })
           /\ \A place \in Places :
                  KeyMatches(place)
                      => \E k \in DOMAIN options_list :
                            options_list[k] = RawContract(place)
           /\ \A k \in DOMAIN options_list :
                  \E place \in Places :
                      KeyMatches(place) /\ options_list[k] = RawContract(place)

(* C6: a raw contract is kept if and only if its own strike field equals  *)
(* the strike key it was found under; a mismatched contract is dropped,   *)
(* never corrected, and a mismatch does not abort the operation.          *)
C6_MismatchDroppedNotFatal ==
    /\ KeptIffStrikeMatches
    /\ (ChainDone /\ \E place \in Places : ~KeyMatches(place))
           => ret.kind # "raise"

\* the day (counted like the clock) of the first Monday after day d
FirstMondayAfter(d) == CHOOSE m \in (d + 1)..(d + 7) : m % 7 = 0

DayOf(t) == t \div (24 * 60)

\* 06:30 on day d
MarketOpenOn(d) == d * 24 * 60 + 6 * 60 + 30

(* C7: for every current instant that is not on a weekend, every          *)
(* lookback_days >= 0 and either value of from_market_open, the window    *)
(* computed has start <= end.                                             *)
C7_StartNotAfterEnd ==
    (WindowDone /\ Weekday(clock) < 5
                /\ (from_market_open => Weekday(now) < 5))
        => start_date <= end_date

(* C8: with from_market_open = true and now on a Saturday or a Sunday,    *)
(* start is 06:30 of the first Monday after now, and end is the current   *)
(* instant as read, not rolled forward.                                   *)
C8_WeekendRollsToMonday ==
    (WindowDone /\ from_market_open /\ Weekday(now) >= 5)
        => /\ start_date = MarketOpenOn(FirstMondayAfter(DayOf(now)))
           /\ end_date = clock
           /\ end_date <= now

\* Saturday 2024-03-16 10:00 rolls to Monday 2024-03-18 06:30
C8_Witness ==
    /\ WindowDone /\ from_market_open
    /\ now = 12 * 24 * 60 + 10 * 60
    /\ start_date = 14 * 24 * 60 + 6 * 60 + 30
    /\ end_date = 12 * 24 * 60 + 10 * 60

(* C9: with from_market_open = false, end is now and start is now minus   *)
(* exactly lookback_days calendar days, on weekdays and weekends alike;   *)
(* 2024-03-15T10:00 with lookback_days = 5 gives 2024-03-10T10:00.        *)
C9_LookbackWindow ==
    (WindowDone /\ ~from_market_open)
        => /\ end_date = clock
           /\ start_date + lookback_days * 24 * 60 = end_date
           /\ start_date % (24 * 60) = end_date % (24 * 60)
           /\ DayOf(start_date) = DayOf(end_date) - lookback_days
           /\ (clock = 11 * 24 * 60 + 10 * 60 /\ lookback_days = 5)
                  => start_date = 6 * 24 * 60 + 10 * 60

\* the example: now = 2024-03-15T10:00, lookback_days = 5
C9_Witness ==
    /\ WindowDone /\ ~from_market_open
    /\ clock = 11 * 24 * 60 + 10 * 60
    /\ lookback_days = 5
    /\ start_date = 6 * 24 * 60 + 10 * 60
    /\ end_date = 11 * 24 * 60 + 10 * 60

\* the ticker argument an operation should record for caller's argument t:
\* a list of tickers is recorded as its upper-cased tickers joined
UpperArgument(f, t) ==
    IF f = "get_multi_historical_daily_bars"
        THEN JoinTickers([i \in DOMAIN t |-> Upper(t[i])])
        ELSE Upper(t)

(* C10: for every adapter and every operation that takes a ticker, the    *)
(* ticker recorded at the vendor library is the upper-cased form of the   *)
(* caller's ticker, whatever the caller's casing.                        *)
C10_TickerUpperCased ==
    pc = "done"
        => \A i \in DOMAIN sent : sent[i].arg = UpperArgument(op, ticker)

-----------------------------------------------------------------------------
(* Session lifecycle, streaming and bar sequences *)

\* a construction of TDAClient runs in this step
Constructing == auth = "down" /\ auth' # "down"

(* C11: once a construction has created a session through the interactive *)
(* login, and while the token that login persisted is still valid, every  *)
(* later construction loads it from the token file and runs no            *)
(* interactive login: the login writes where the construction reads.      *)
C11_PersistedSessionReused ==
    [][ (Constructing /\ logins > 0 /\ files[tda_token_path] = "valid")
            => /\ auth' = "token_file"
               /\ session' = "valid"
               /\ logins' = logins ]_vars

(* C12: a construction that finds the token file absent, unreadable,      *)
(* malformed or expired falls back to the interactive login; it ends with *)
(* a valid session if the login succeeds, and fails with no session if    *)
(* the login fails.                                                       *)
C12_InvalidTokenFallsBack ==
    [][ (Constructing /\ files[TokenPath] # "valid")
            => /\ auth' \in {"login", "login_failed"}
               /\ auth' = "login" => session' = "valid"
               /\ auth' = "login_failed" => session' = "none" ]_vars

\* the first n messages the stream client delivers
Arrived(n) == SubSeq(messages, 1, IF n < Len(messages) THEN n ELSE Len(messages))

(* C13: when the stream client delivers N messages and raises on the next *)
(* read, the loop hands the handler exactly those N messages, one per     *)
(* read and in arrival order, then lets the failure out of read_stream:   *)
(* it does not retry and does not read again.                             *)
C13_StreamLoopPropagates ==
    /\ reads <= Len(messages) + 1
    /\ delivered = IF handler THEN Arrived(reads) ELSE <<>>
    /\ stream_pc = "loop" => reads <= Len(messages)
    /\ (stream_pc = "raised" /\ handler)
           => /\ delivered = messages
              /\ reads = Len(messages) + 1

\* two different messages were handled in order before the failure left
C13_Witness ==
    /\ stream_pc = "raised" /\ handler
    /\ messages = <<"bid", "ask">>
    /\ delivered = <<"bid", "ask">>
    /\ reads = 3

\* a bar-returning facade operation has returned its bars
BarsReturned ==
    /\ FacadeDone /\ ret.kind = "value"
    /\ op \in {"get_historical_daily_bars", "get_minute_bars"}

(* C14: the bars returned by get_historical_daily_bars and by             *)
(* get_minute_bars are strictly ascending by date, so no date is          *)
(* repeated, whatever the order and the dates of the vendor's payload.    *)
C14_BarsStrictlyAscending ==
    BarsReturned
        => \A i, j \in DOMAIN bars : i < j => bars[i] < bars[j]

(* C15: a price-history request of the primary broker's adapter that is   *)
(* answered with a non-success status ends in a raised error; the         *)
(* operation, get_minute_bars included, never returns None.               *)
C15_FailedResponseRaises ==
    (FacadeDone /\ source = "td" /\ status_code \notin {NotRead, 200})
        => ret.kind = "raise"

\* a request operation of the primary broker's adapter runs in this step
TdRequest ==
    pc = "ready" /\ pc' = "done" /\ source' = "td" /\ op' \in FacadeOps

(* C16: a request operation of the constructed adapter leaves the session *)
(* as it is, runs no interactive login and writes no token file; made     *)
(* with an expired session it ends in a raised error.                     *)
C16_RequestsKeepSession ==
    [][ TdRequest
            => /\ session' = session
               /\ logins' = logins
               /\ auth' = auth
               /\ files' = files
               /\ session = "expired" => ret'.kind = "raise" ]_vars

\* the candles of the response as get_minute_bars dates them
AllBars == [i \in DOMAIN candles |-> PacificNaive(candles[i])]

(* C17: get_minute_bars with num_bars = k, on a response of m candles,    *)
(* returns the last min(k, m) bars in their order; with num_bars not      *)
(* given it returns all m.                                                *)
C17_NumBarsTail ==
    (WindowDone /\ ret.kind = "value")
        => bars = IF num_bars = <<>> THEN AllBars
                  ELSE DfTail(AllBars, num_bars[1])

====
